---- MODULE Spec2Model ----
(***************************************************************************)
(* Tool-use orchestration of anthropic-sdk-tools.                          *)
(*   buffered mode : AnthropicClient.runWithTools      (src/src/index.ts)  *)
(*   streamed mode : AnthropicClientV2.stream          (src/src/v2.ts)     *)
(*                                                                         *)
(* A text is a sequence of tokens.  The token FC stands for the marker     *)
(* '<function_calls>', an "inv" token for one <invoke> element, FR for     *)
(* '<function_results>'.  String concatenation is sequence concatenation,  *)
(* String.includes is token membership, String.split is cutting at a token.*)
(* An optional value (a field that may be undefined) is a sequence of      *)
(* length 0 (undefined) or 1.                                              *)
(***************************************************************************)
EXTENDS Integers, Sequences, FiniteSets, TLC

\* ---------------------------------------------------------------- bounds
MaxInvokes == 2       \* invoke elements in one invocation block
MaxRounds == 2        \* buffered replies that may carry an invocation block
MaxSecChunks == 1     \* chunks of one secondary (parameter) stream
MaxReiterate == 1     \* further attempts to iterate the same stream

\* ---------------------------------------------------------------- tokens
Tok(t, name, arg) == [t |-> t, name |-> name, arg |-> arg]
Txt == Tok("txt", "-", "-")
FC == Tok("FC", "-", "-")
FR == Tok("FR", "-", "-")
FREnd == Tok("FRend", "-", "-")
Inv(name, arg) == Tok("inv", name, arg)
ResultFragment(name, val) == Tok("res", name, val)
ErrorFragment(cause) == Tok("err", "-", cause)

Includes(text, tok) == \E i \in 1..Len(text) : text[i] = tok

Positions(text, tok) == {i \in 1..Len(text) : text[i] = tok}

Min(S) == CHOOSE x \in S : \A y \in S : x <= y

\* text.split(tok)[1]: what lies between the first and the second tok
SplitSecond(text, tok) ==
    LET ps == Positions(text, tok)
        p1 == Min(ps)
        rest == ps \ {p1}
        p2 == IF rest = {} THEN Len(text) + 1 ELSE Min(rest)
    IN SubSeq(text, p1 + 1, p2 - 1)

ToolNames == {"lookup", "compute"}
ToolLists == {<< >>, <<"lookup">>, <<"lookup", "compute">>}

Find(tools, name) == \E i \in 1..Len(tools) : tools[i] = name

\* new XMLParser().parse(block).function_calls for a block holding the
\* invoke elements of seg: repeated sibling elements are grouped in a list
\* under their tag name, a single child is a plain object, and an element
\* without children is the empty string.
XMLParse(seg) ==
    LET items == SelectSeq(seg, LAMBDA tk : tk.t = "inv")
    IN [shape |-> IF Len(items) = 0 THEN "text"
                  ELSE IF Len(items) = 1 THEN "single" ELSE "list",
        items |-> items]

\* ------------------------------------------------ requests and messages
Marker == "</function_calls>"

Msg(role, str, blocks, isString) ==
    [role |-> role, str |-> str, blocks |-> blocks, isString |-> isString]
StringMsg(role, text) == Msg(role, text, << >>, TRUE)
BlocksMsg(role, blocks) == Msg(role, << >>, blocks, FALSE)

\* a conversation whose first user message quotes the text '<function_calls>'
QuotingTranscript ==
    <<StringMsg("user", <<Txt, FC>>),
      StringMsg("assistant", <<Txt>>),
      StringMsg("user", <<Txt>>)>>

CallerMessages == {<<StringMsg("user", <<Txt>>)>>, QuotingTranscript}
CallerSystems == {<< >>, << <<"sys">> >>}
CallerStops == {<< >>, << <<"STOP">> >>}
CallerTools == {<< >>} \cup {<<l>> : l \in ToolLists}

\* x || dflt for an optional x
OrElse(opt, dflt) == IF Len(opt) = 0 THEN dflt ELSE opt[1]

\* a faulty variant: the marker is put in front of the caller's sequences
ExtendStops_Front(stops) == <<Marker>> \o OrElse(stops, << >>)

\* [...(body.stop_sequences || []), '</function_calls>']
ExtendStops(stops) == OrElse(stops, << >>) \o <<Marker>>

\* A system prompt is a sequence of parts: a framing preamble, one part per
\* tool description, the caller's text.
Req(kind, system, stops, messages) ==
    [kind |-> kind, system |-> system, stop_sequences |-> stops,
     messages |-> messages]

\* ------------------------------------------------ provider streams
Chunk(type, text) == [type |-> type, index |-> 0, text |-> text]

\* the events of a provider stream delivering text in one content block
ChunkScript(text) ==
    <<Chunk("message_start", << >>), Chunk("content_block_start", << >>)>>
    \o (IF Len(text) = 0 THEN << >>
        ELSE <<Chunk("content_block_delta", SubSeq(text, 1, 1))>>)
    \o (IF Len(text) <= 1 THEN << >>
        ELSE <<Chunk("content_block_delta", SubSeq(text, 2, Len(text)))>>)
    \o <<Chunk("content_block_stop", << >>), Chunk("message_delta", << >>),
         Chunk("message_stop", << >>)>>

\* a provider stream that delivers no content block at all
NoContentScript == <<Chunk("message_start", << >>), Chunk("message_stop", << >>)>>

InvokeSeqs(args) ==
    UNION {[1..k -> {Inv(n, a) : n \in ToolNames, a \in args}] : k \in 0..MaxInvokes}

\* replies of the tool-enabled model in streamed mode
StreamTexts == {<<Txt>>} \cup {<<Txt, FC>> \o is : is \in InvokeSeqs({"ctx"})}
OuterScripts == {NoContentScript} \cup {ChunkScript(t) : t \in StreamTexts}
ContTexts == {<<Txt>>, <<Txt, FC, Inv("lookup", "ctx")>>}
ContScripts == {ChunkScript(t) : t \in ContTexts}

\* what the secondary (parameter) model may write
SecTexts == {"json_ok", "json_bad_schema", "wrapped_cut", "not_json"}

\* what a tool function may do
ToolOutcomes == {[kind |-> k, val |-> v] :
                    k \in {"resolve", "reject"}, v \in {"value", "undefined"}}

Ev(type, index, text, tool, val, results, block) ==
    [type |-> type, index |-> index, text |-> text, tool |-> tool, val |-> val,
     results |-> results, block |-> block]
ChunkEv(c) == Ev(c.type, c.index, c.text, "-", "-", {}, << >>)
ToolEv(type, tool, val) == Ev(type, 0, << >>, tool, val, {}, << >>)

\* State of one call.  caller is the request as the caller built it, body
\* the same object as the code mutates it.  History variables, never read
\* by the code: requests, toolCalls, yielded (what invokeFunctions yields),
\* events (what the consumer receives), outerScript, contScript, parsedLog,
\* replies, failure (the cause of a tool failure not yet fed back),
\* aborted, abortAt, attempts, iterations, usageErrors.
VARIABLES mode, pc, caller, body, tools, requests, toolCalls, outcome, error,
          consumed, done, content, outer, outerOpen, outerScript,
          finallyAborted, yielded, events, calls, idx, functionResults,
          results, sec, cont, contScript, running, aborted, abortAt,
          attempts, iterations, usageErrors,
          response, text, first, functions, fi, round, parsedLog,
          fullMessages, filteredMessages, replies, failure

cVars == <<mode, caller>>
sVars == <<consumed, done, content, outer, outerOpen, outerScript,
           finallyAborted, yielded, events, calls, idx,
           results, sec, cont, contScript, running, aborted, abortAt,
           attempts, iterations, usageErrors>>
bVars == <<response, text, first, functions, fi, round, parsedLog,
           fullMessages, filteredMessages, replies>>
vars == <<mode, pc, caller, body, tools, requests, toolCalls, outcome, error,
          functionResults, sVars, bVars, failure>>

\* ------------------------------------------------ streamed mode: helpers
\* v2.ts buildSystemMessage
BuildSystemMessage(tl, systemMessage) ==
    (IF Len(tl) > 0 THEN <<"framing_v2">> \o tl \o <<"tools_end">> ELSE << >>)
    \o OrElse(systemMessage, << >>)

\* v2.ts processChunk: the content array after the chunk (the assignment
\* content = [] on message_start rebinds the parameter only)
ProcessChunk(chunk, cnt) ==
    IF chunk.type = "content_block_start"
    THEN IF Len(cnt) = 0 THEN <<chunk.text>> ELSE [cnt EXCEPT ![1] = chunk.text]
    ELSE IF chunk.type = "content_block_delta"
    THEN [cnt EXCEPT ![1] = cnt[1] \o chunk.text]
    ELSE cnt

\* the event types of a provider stream
StreamEventTypes ==
    {"message_start", "message_delta", "message_stop", "content_block_start",
     "content_block_delta", "content_block_stop"}

\* a faulty variant: the end of a content block is not passed on
ProcessChunkYield_NoStop(chunk) ==
    IF chunk.type \in StreamEventTypes \ {"content_block_stop"}
    THEN <<ChunkEv(chunk)>> ELSE << >>

\* v2.ts processChunk: what it yields for a chunk
ProcessChunkYield(chunk) ==
    IF chunk.type \in StreamEventTypes THEN <<ChunkEv(chunk)>> ELSE << >>

Rec(name, context) == [tool_name |-> name, context |-> context]

\* v2.ts extractFunctionCalls; ok = FALSE when it raises a TypeError
ExtractFunctionCalls(txt) ==
    IF ~Includes(txt, FC) THEN [ok |-> TRUE, recs |-> << >>]
    ELSE LET parsedCalls == XMLParse(SplitSecond(txt, FC))
         IN IF parsedCalls.shape = "array"
            THEN [ok |-> TRUE,
                  recs |-> [i \in 1..Len(parsedCalls.items) |->
                              Rec(parsedCalls.items[i].name, parsedCalls.items[i].arg)]]
            ELSE IF parsedCalls.shape = "text"
            THEN [ok |-> FALSE, recs |-> << >>]
            ELSE IF parsedCalls.shape = "single"
            THEN [ok |-> TRUE,
                  recs |-> <<Rec(parsedCalls.items[1].name, parsedCalls.items[1].arg)>>]
            ELSE [ok |-> TRUE, recs |-> <<Rec("undefined", "undefined")>>]

\* a faulty variant: the parsed parameters are not validated
ResolveParameters_Unchecked(secText) ==
    IF secText \notin {"json_ok", "json_bad_schema"} THEN "SyntaxError"
    ELSE "undefined"

\* v2.ts invokeFunction, lines 365-385: JSON.parse of the secondary text
\* with a complete <parameters>..</parameters> pair removed, then safeParse
ResolveParameters(secText) ==
    IF secText \notin {"json_ok", "json_bad_schema"} THEN "SyntaxError"
    ELSE IF secText # "json_ok" THEN "ZodError"
    ELSE "undefined"

Truthy(v) == v # "undefined"

\* one call of a tool function, in round r
Call(r, name) == [round |-> r, name |-> name]

\* the iterator of stream(): which chunks of invokeFunctions it yields
IteratorForward(chunk) ==
    IF chunk.type \in {"tool_error", "tool_result", "tool_results"}
    THEN <<chunk>> ELSE << >>

\* results[name] = data
SetResult(rs, name, data) ==
    {r \in rs : r.name # name} \cup {[name |-> name, val |-> data]}

\* a faulty variant of the guard: it never refuses
ConsumedGuard_Never(c) == FALSE

\* line 85: the guard of the iterator
ConsumedGuard(c) == c

\* ------------------------------------------------ streamed mode: actions
Init ==
    /\ mode \in {"buffered", "streamed"}
    /\ caller \in [messages : CallerMessages, system : CallerSystems,
                   stop_sequences : CallerStops, tools : CallerTools]
    /\ body = caller
    /\ pc = "idle"
    /\ tools = << >>
    /\ requests = << >>
    /\ toolCalls = << >>
    /\ outcome = "none"
    /\ error = "-"
    /\ consumed = FALSE
    /\ done = FALSE
    /\ content = << >>
    /\ outer = << >>
    /\ outerOpen = FALSE
    /\ outerScript = << >>
    /\ finallyAborted = FALSE
    /\ yielded = << >>
    /\ events = << >>
    /\ calls = << >>
    /\ idx = 0
    /\ functionResults = << >>
    /\ results = {}
    /\ sec = [open |-> FALSE, left |-> 0, finalText |-> "-"]
    /\ cont = [open |-> FALSE, q |-> << >>]
    /\ contScript = << >>
    /\ running = "-"
    /\ aborted = FALSE
    /\ abortAt = -1
    /\ attempts = 0
    /\ iterations = 0
    /\ usageErrors = 0
    /\ response = << >>
    /\ text = << >>
    /\ first = TRUE
    /\ functions = << >>
    /\ fi = 0
    /\ round = 0
    /\ parsedLog = << >>
    /\ fullMessages = << >>
    /\ filteredMessages = << >>
    /\ replies = << >>
    /\ failure = << >>

\* stream(), lines 59-82 and 143: the tool-enabled request is sent and the
\* stream object is returned
Stream ==
    /\ mode = "streamed" /\ pc = "idle"
    /\ LET tl == OrElse(body.tools, << >>)
           stops == IF Len(tl) > 0
                    THEN ExtendStops(body.stop_sequences)
                    ELSE << >>
       IN /\ tools' = tl
          /\ requests' = Append(requests,
                Req("initial", BuildSystemMessage(tl, body.system), <<stops>>,
                    body.messages))
    /\ body' = [body EXCEPT !.tools = << >>]
    /\ \E sc \in OuterScripts : outer' = sc /\ outerScript' = sc
    /\ outerOpen' = TRUE
    /\ pc' = "notStarted"
    /\ UNCHANGED <<cVars, toolCalls, outcome, error, consumed, done, content,
                   finallyAborted, yielded, events, calls, idx, functionResults,
                   results, sec, cont, contScript, running, aborted, abortAt,
                   attempts, iterations, usageErrors, bVars, failure>>

\* iterator(), lines 85-90: the consumer starts iterating the stream object
Iterate ==
    /\ mode = "streamed" /\ pc # "idle" /\ attempts <= MaxReiterate
    /\ attempts' = attempts + 1
    /\ IF ConsumedGuard(consumed)
       THEN /\ usageErrors' = usageErrors + 1
            /\ UNCHANGED <<pc, consumed, done, iterations>>
       ELSE /\ consumed' = TRUE
            /\ done' = FALSE
            /\ iterations' = iterations + 1
            /\ pc' = "outer"
            /\ UNCHANGED usageErrors
    /\ UNCHANGED <<cVars, body, tools, requests, toolCalls, outcome, error,
                   content, outer, outerOpen, outerScript, finallyAborted,
                   yielded, events, calls, idx, functionResults, results, sec,
                   cont, contScript, running, aborted, abortAt, bVars, failure>>

\* a faulty variant of the exit step: the provider stream is left alone
Throw_NoAbort(kind) ==
    /\ pc' = "failed"
    /\ outcome' = "threw"
    /\ error' = kind
    /\ outerOpen' = FALSE
    /\ outer' = << >>
    /\ UNCHANGED finallyAborted

\* catch/finally, lines 130-140, for a fault that is not an AbortError
Throw(kind) ==
    /\ pc' = "failed"
    /\ outcome' = "threw"
    /\ error' = kind
    /\ finallyAborted' = TRUE
    /\ outerOpen' = FALSE
    /\ outer' = << >>

\* line 129 and the end of the generator
Finish ==
    /\ done' = TRUE
    /\ pc' = "done"
    /\ outcome' = "completed"

\* lines 93-95: one chunk of the outer provider stream
OuterChunk ==
    /\ pc = "outer" /\ Len(outer) > 0
    /\ content' = ProcessChunk(Head(outer), content)
    /\ events' = events \o ProcessChunkYield(Head(outer))
    /\ outer' = Tail(outer)
    /\ UNCHANGED <<cVars, pc, body, tools, requests, toolCalls, outcome, error,
                   consumed, done, outerOpen, outerScript, finallyAborted,
                   yielded, calls, idx, functionResults, results, sec, cont,
                   contScript, running, aborted, abortAt, attempts, iterations,
                   usageErrors, bVars, failure>>

\* lines 95-103: the outer stream has ended; the text is searched for an
\* invocation block
OuterEnd ==
    /\ pc = "outer" /\ Len(outer) = 0
    /\ IF Len(content) = 0
       THEN /\ Throw("TypeError")
            /\ UNCHANGED <<done, calls, idx, functionResults, results>>
       ELSE IF ~Includes(content[1], FC)
       THEN /\ Finish /\ outerOpen' = FALSE
            /\ UNCHANGED <<error, finallyAborted, outer, calls, idx,
                           functionResults, results>>
       ELSE LET x == ExtractFunctionCalls(content[1])
            IN IF ~x.ok
               THEN /\ Throw("TypeError")
                    /\ UNCHANGED <<done, calls, idx, functionResults, results>>
               ELSE IF Len(x.recs) > 0
               THEN /\ calls' = x.recs
                    /\ idx' = 1
                    /\ functionResults' = <<FR>>
                    /\ results' = {}
                    /\ pc' = "loop"
                    /\ outerOpen' = FALSE
                    /\ UNCHANGED <<outcome, error, finallyAborted, outer, done>>
               ELSE /\ Finish /\ outerOpen' = FALSE
                    /\ UNCHANGED <<error, finallyAborted, outer, calls, idx,
                                   functionResults, results>>
    /\ UNCHANGED <<cVars, body, tools, requests, toolCalls, consumed, content,
                   outerScript, yielded, events, sec, cont, contScript,
                   running, aborted, abortAt, attempts, iterations, usageErrors, bVars, failure>>

ToolCallerSys(name) == <<"tool_caller", name>>

\* invokeFunctions, lines 264-274 and 300-316, and invokeFunction, lines
\* 328-342: the head of the loop over the parsed records
LoopHead ==
    /\ pc = "loop"
    /\ IF idx > Len(calls)
       THEN LET block == Append(functionResults, FREnd)
                chunk == Ev("tool_results", 0, << >>, "-", "-", results,
                            <<StringMsg("user", block)>>)
            IN /\ functionResults' = block
               /\ yielded' = Append(yielded, chunk)
               /\ events' = events \o IteratorForward(chunk)
               /\ pc' = "final"
               /\ UNCHANGED <<requests, sec, outcome, error, finallyAborted,
                              outerOpen, outer>>
       ELSE IF ~Find(tools, calls[idx].tool_name)
       THEN /\ Throw("ToolNotFound")
            /\ UNCHANGED <<requests, sec, functionResults, yielded, events>>
       ELSE LET chunk == ToolEv("tool_invoke", calls[idx].tool_name, "-")
            IN /\ yielded' = Append(yielded, chunk)
               /\ events' = events \o IteratorForward(chunk)
               /\ requests' = Append(requests,
                     Req("secondary", ToolCallerSys(calls[idx].tool_name),
                         << <<"</parameters>">> >>,
                         <<StringMsg("user", <<Tok("ctx", "-", calls[idx].context)>>)>>))
               /\ \E n \in 1..MaxSecChunks :
                     sec' = [open |-> TRUE, left |-> n, finalText |-> "-"]
               /\ pc' = "secondary"
               /\ UNCHANGED <<functionResults, outcome, error, finallyAborted,
                              outerOpen, outer>>
    /\ UNCHANGED <<cVars, body, tools, toolCalls, consumed, done, content,
                   outerScript, calls, idx, results, cont, contScript, running,
                   aborted, abortAt, attempts, iterations, usageErrors, bVars, failure>>

\* invokeFunctions, lines 276-297, with the iterator's lines 109-123: one
\* value yielded by invokeFunction is handled.  After a tool_error the
\* iterator leaves its loop, which closes invokeFunctions at its yield.
HandleResult(name, res) ==
    IF Truthy(res.error)
    THEN LET chunk == ToolEv("tool_error", name, res.error)
         IN /\ yielded' = Append(yielded, chunk)
            /\ events' = events \o IteratorForward(chunk)
            /\ pc' = IF chunk.type = "tool_error" THEN "final" ELSE "loop"
            /\ UNCHANGED <<functionResults, results, idx>>
    ELSE IF res.data # "undefined"
    THEN LET chunk == ToolEv("tool_result", name, res.data)
         IN /\ functionResults' = Append(functionResults, ResultFragment(name, res.data))
            /\ results' = SetResult(results, name, res.data)
            /\ yielded' = Append(yielded, chunk)
            /\ events' = events \o IteratorForward(chunk)
            /\ idx' = idx + 1
            /\ pc' = "loop"
    ELSE /\ idx' = idx + 1
         /\ pc' = "loop"
         /\ UNCHANGED <<functionResults, results, yielded, events>>

\* invokeFunction, lines 346-363: one chunk of the secondary stream
SecChunk ==
    /\ pc = "secondary" /\ sec.left > 0
    /\ sec' = [sec EXCEPT !.left = sec.left - 1]
    /\ UNCHANGED <<cVars, pc, body, tools, requests, toolCalls, outcome, error,
                   consumed, done, content, outer, outerOpen, outerScript,
                   finallyAborted, yielded, events, calls, idx, functionResults,
                   results, cont, contScript, running, aborted, abortAt,
                   attempts, iterations, usageErrors, bVars, failure>>

\* a faulty variant: the secondary stream is left before its end
SecDrained_Early(s) == TRUE

\* lines 346-363: the loop over the secondary stream ends with the stream
SecDrained(s) == s.left = 0

\* invokeFunction, lines 365-388: the secondary stream has ended; the
\* parameters are parsed and validated and the tool function is called
SecEnd ==
    /\ pc = "secondary" /\ SecDrained(sec)
    /\ \E t \in SecTexts :
         LET e == ResolveParameters(t)
         IN /\ sec' = [open |-> FALSE, left |-> 0, finalText |-> t]
            /\ IF e # "undefined"
               THEN /\ HandleResult(calls[idx].tool_name,
                                    [error |-> e, data |-> "undefined"])
                    /\ failure' = <<e>>
                    /\ UNCHANGED <<toolCalls, running>>
               ELSE /\ toolCalls' = Append(toolCalls, Call(1, calls[idx].tool_name))
                    /\ UNCHANGED failure
                    /\ running' = calls[idx].tool_name
                    /\ pc' = "tool"
                    /\ UNCHANGED <<functionResults, results, yielded, events, idx>>
    /\ UNCHANGED <<cVars, body, tools, requests, outcome, error, consumed, done,
                   content, outer, outerOpen, outerScript, finallyAborted,
                   calls, cont, contScript, aborted, abortAt, attempts,
                   iterations, usageErrors, bVars>>

\* invokeFunction, lines 387-392: the tool function settles
ToolSettle ==
    /\ pc = "tool"
    /\ running' = "-"
    /\ \E o \in ToolOutcomes :
         /\ HandleResult(running,
                         IF o.kind = "resolve"
                         THEN [error |-> "undefined", data |-> o.val]
                         ELSE [error |-> o.val, data |-> "undefined"])
         /\ failure' = IF o.kind = "reject" THEN <<o.val>> ELSE failure
    /\ UNCHANGED <<cVars, body, tools, requests, toolCalls, outcome, error,
                   consumed, done, content, outer, outerOpen, outerScript,
                   finallyAborted, calls, sec, cont, contScript, aborted,
                   abortAt, attempts, iterations, usageErrors, bVars>>

\* a faulty variant: the continuation keeps the caller's system prompt as it is
FinalSystem_Plain(system) == OrElse(system, <<"undefined">>)

\* line 402: the system prompt of the continuation request
FinalSystem(system) == <<"no_more_tools">> \o OrElse(system, <<"undefined">>)

\* sendFinalResponse, lines 400-406, called at line 125
SendFinal ==
    /\ pc = "final"
    /\ requests' = Append(requests,
          Req("continuation",
              FinalSystem(body.system),
              body.stop_sequences, body.messages))
    /\ \E sc \in ContScripts :
         /\ cont' = [open |-> TRUE, q |-> sc]
         /\ contScript' = sc
    /\ pc' = "cont"
    /\ UNCHANGED <<cVars, body, tools, toolCalls, outcome, error, consumed, done,
                   content, outer, outerOpen, outerScript, finallyAborted,
                   yielded, events, calls, idx, functionResults, results, sec,
                   running, aborted, abortAt, attempts, iterations, usageErrors, bVars, failure>>

\* sendFinalResponse, lines 408-410: one chunk of the continuation stream
ContChunk ==
    /\ pc = "cont" /\ Len(cont.q) > 0
    /\ events' = Append(events, ChunkEv(Head(cont.q)))
    /\ cont' = [cont EXCEPT !.q = Tail(cont.q)]
    /\ UNCHANGED <<cVars, pc, body, tools, requests, toolCalls, outcome, error,
                   consumed, done, content, outer, outerOpen, outerScript,
                   finallyAborted, yielded, calls, idx, functionResults,
                   results, sec, contScript, running, aborted, abortAt,
                   attempts, iterations, usageErrors, bVars, failure>>

\* the continuation stream has ended: line 129
ContEnd ==
    /\ pc = "cont" /\ Len(cont.q) = 0
    /\ cont' = [cont EXCEPT !.open = FALSE]
    /\ Finish
    /\ UNCHANGED <<cVars, body, tools, requests, toolCalls, error, consumed,
                   content, outer, outerOpen, outerScript, finallyAborted,
                   yielded, events, calls, idx, functionResults, results, sec,
                   contScript, running, aborted, abortAt, attempts, iterations,
                   usageErrors, bVars, failure>>

\* the consumer aborts the returned stream: line 143 hands the controller of
\* the outer provider stream, and only that one, to the returned stream
Abort ==
    /\ mode = "streamed"
    /\ pc \notin {"idle", "done", "failed", "cancelled", "stopped"}
    /\ ~aborted
    /\ aborted' = TRUE
    /\ abortAt' = Len(requests)
    /\ outerOpen' = FALSE
    /\ outer' = << >>
    /\ UNCHANGED <<cVars, pc, body, tools, requests, toolCalls, outcome, error,
                   consumed, done, content, outerScript, finallyAborted,
                   yielded, events, calls, idx, functionResults, results, sec,
                   cont, contScript, running, attempts, iterations, usageErrors, bVars, failure>>

\* the names a fault of a provider stream may carry
FaultKinds == {"APIError", "AbortError"}

\* catch, lines 130-133, and finally, lines 136-140, for a fault named
\* AbortError: the generator returns, nothing is raised
Cancel ==
    /\ pc' = "cancelled"
    /\ outcome' = "cancelled"
    /\ finallyAborted' = TRUE
    /\ outerOpen' = FALSE
    /\ outer' = << >>
    /\ UNCHANGED error

\* lines 130-140: the exit of the iteration on a fault
Exit(kind) == IF kind = "AbortError" THEN Cancel ELSE Throw(kind)

\* lines 93, 346 and 408: the provider stream being read raises a fault
ProviderFault ==
    /\ \/ pc = "outer" /\ outerOpen
       \/ pc = "secondary" /\ sec.open
       \/ pc = "cont" /\ cont.open
    /\ \E kind \in FaultKinds : Exit(kind)
    /\ sec' = [sec EXCEPT !.open = FALSE]
    /\ cont' = [cont EXCEPT !.open = FALSE]
    /\ UNCHANGED <<cVars, body, tools, requests, toolCalls, consumed, done,
                   content, outerScript, yielded, events, calls, idx,
                   functionResults, results, contScript, running, aborted,
                   abortAt, attempts, iterations, usageErrors, bVars, failure>>

\* the consumer leaves its loop early: the generator is closed at the yield
\* it is suspended at, and the finally block, lines 136-140, runs with done
\* still false
ConsumerStop ==
    /\ mode = "streamed"
    /\ pc \in {"outer", "loop", "secondary", "tool", "final", "cont"}
    /\ Len(events) > 0
    /\ pc' = "stopped"
    /\ outcome' = "stopped"
    /\ finallyAborted' = TRUE
    /\ outerOpen' = FALSE
    /\ outer' = << >>
    /\ sec' = [sec EXCEPT !.open = FALSE]
    /\ cont' = [cont EXCEPT !.open = FALSE]
    /\ UNCHANGED <<cVars, body, tools, requests, toolCalls, error, consumed,
                   done, content, outerScript, yielded, events, calls, idx,
                   functionResults, results, contScript, running, aborted,
                   abortAt, attempts, iterations, usageErrors, bVars, failure>>

\* ------------------------------------------------ buffered mode
\* replies of the model in buffered mode: the content array of a response
\* (the payload of an invoke element is read only when the block holds one
\* element, so blocks of several elements carry one kind of payload)
BufTexts == {<< >>, <<Txt>>}
            \cup {<<Txt, FC>> \o is : is \in InvokeSeqs({"valid"})}
            \cup {<<Txt, FC, Inv(n, "invalid")>> : n \in ToolNames}
BufResponses == {<< >>} \cup {<<t>> : t \in BufTexts}

HasMarker(resp) == Len(resp) > 0 /\ Includes(resp[1], FC)

\* index.ts getTextFromMessage: the optional text of a message (null = << >>)
GetTextFromMessage(m) ==
    IF m.isString
    THEN IF Len(m.str) = 0 THEN << >> ELSE <<m.str>>
    ELSE IF Len(m.blocks) = 0 THEN << >>
    ELSE IF Len(m.blocks[1]) = 0 THEN << >> ELSE <<m.blocks[1]>>

\* the predicate of body.messages.filter, lines 543-551
KeepMessage(m) ==
    LET t == GetTextFromMessage(m)
    IN IF Len(t) = 0 THEN TRUE
       ELSE ~Includes(t[1], FC) /\ ~Includes(t[1], FR)

Func(name, parameters) == [name |-> name, parameters |-> parameters]

\* lines 420-441: the records pushed for one reply; ok = FALSE when reading
\* invoke.invoke.tool_name raises a TypeError
ParseInvocations(txt) ==
    LET parsedCalls == XMLParse(SplitSecond(txt, FC))
    IN IF parsedCalls.shape = "array"
       THEN [ok |-> TRUE,
             recs |-> [i \in 1..Len(parsedCalls.items) |->
                         Func(parsedCalls.items[i].name, parsedCalls.items[i].arg)]]
       ELSE IF parsedCalls.shape = "text"
       THEN [ok |-> FALSE, recs |-> << >>]
       ELSE IF parsedCalls.shape = "single"
       THEN [ok |-> TRUE,
             recs |-> <<Func(parsedCalls.items[1].name, parsedCalls.items[1].arg)>>]
       ELSE [ok |-> TRUE, recs |-> <<Func("undefined", "empty")>>]

\* lines 322-371: the system prompt of the buffered call
BufferedSystem(tl, systemMessage) ==
    (IF Len(tl) > 0 THEN <<"framing_buffered">> \o tl \o <<"tools_end">> ELSE << >>)
    \o OrElse(systemMessage, << >>)

\* a faulty variant: the full transcript is returned filtered as well
Return_Filtered(messages) ==
    /\ fullMessages' = SelectSeq(messages, KeepMessage)
    /\ filteredMessages' = SelectSeq(messages, KeepMessage)
    /\ outcome' = "returned"
    /\ pc' = "returned"

\* the object returned at lines 397-409, 499-511 and 540-552
Return(messages) ==
    /\ fullMessages' = messages
    /\ filteredMessages' = SelectSeq(messages, KeepMessage)
    /\ outcome' = "returned"
    /\ pc' = "returned"

\* a reply may carry an invocation block while fewer than MaxRounds rounds
\* have been started
ReplyAllowed(resp) == HasMarker(resp) => round < MaxRounds

\* runWithTools, lines 320-417: the first provider request and its reply
RunWithTools ==
    /\ mode = "buffered" /\ pc = "idle"
    /\ \E resp \in BufResponses :
         LET tl == OrElse(body.tools, << >>)
             b1 == [body EXCEPT
                      !.stop_sequences =
                          IF Len(tl) > 0
                          THEN <<ExtendStops(body.stop_sequences)>>
                          ELSE body.stop_sequences,
                      !.system = <<BufferedSystem(tl, body.system)>>,
                      !.tools = << >>]
             msgs == Append(body.messages, BlocksMsg("assistant", resp))
         IN /\ ReplyAllowed(resp)
            /\ tools' = tl
            /\ requests' = Append(requests,
                  Req("initial", b1.system[1], b1.stop_sequences, b1.messages))
            /\ response' = resp
            /\ replies' = Append(replies, resp)
            /\ body' = [b1 EXCEPT !.messages = msgs]
            /\ IF Len(GetTextFromMessage(BlocksMsg("assistant", resp))) = 0
               THEN /\ Return(msgs)
                    /\ UNCHANGED <<text, first, functions>>
               ELSE /\ text' = resp[1]
                    /\ first' = TRUE
                    /\ functions' = << >>
                    /\ pc' = "while"
                    /\ UNCHANGED <<fullMessages, filteredMessages, outcome>>
    /\ UNCHANGED <<cVars, toolCalls, error, fi, round, parsedLog, sVars,
                   functionResults, failure>>

\* a faulty variant: the loop is never entered
LoopCondition_Never(txt) == FALSE

\* line 419: text.includes('<function_calls>')
LoopCondition(txt) == Includes(txt, FC)

\* lines 419-444 and 530-552: the test of the while loop; the reply is
\* parsed, or the loop is left and the call returns
While ==
    /\ pc = "while"
    /\ IF ~LoopCondition(text)
       THEN LET msgs == IF ~first
                        THEN Append(body.messages, StringMsg("assistant", response[1]))
                        ELSE body.messages
            IN /\ body' = [body EXCEPT !.messages = msgs]
               /\ Return(msgs)
               /\ UNCHANGED <<functions, fi, round, parsedLog, error, functionResults,
                              first, failure>>
       ELSE LET x == ParseInvocations(text)
            IN IF ~x.ok
               THEN /\ pc' = "failed"
                    /\ outcome' = "threw"
                    /\ error' = "TypeError"
                    /\ UNCHANGED <<body, functions, fi, round, parsedLog,
                                   functionResults, fullMessages,
                                   filteredMessages, first, failure>>
               ELSE /\ functions' = functions \o x.recs
                    /\ round' = round + 1
                    /\ parsedLog' = Append(parsedLog, x.recs)
                    /\ UNCHANGED failure
                    /\ IF Len(functions') > 0
                       THEN /\ functionResults' = <<FR>>
                            /\ fi' = 1
                            /\ pc' = "exec"
                            /\ UNCHANGED <<body, first>>
                       ELSE /\ body' = [body EXCEPT !.messages =
                                  IF ~first
                                  THEN Append(body.messages,
                                              StringMsg("assistant", response[1]))
                                  ELSE body.messages]
                            /\ first' = FALSE
                            /\ UNCHANGED <<functionResults, fi, pc>>
                    /\ UNCHANGED <<error, outcome, fullMessages, filteredMessages>>
    /\ UNCHANGED <<cVars, tools, requests, toolCalls, response, text, replies, consumed,
                   done, content, outer, outerOpen, outerScript, finallyAborted,
                   yielded, events, calls, idx, results, sec, cont, contScript,
                   running, aborted, abortAt, attempts, iterations, usageErrors>>

\* a faulty variant: every parameter record is accepted
SafeParseFails_Never(parameters) == FALSE

\* lines 453-456: !zodParameters.safeParse(func.parameters).success
SafeParseFails(parameters) == parameters # "valid"

\* lines 446-476: one turn of the loop over functions
Exec ==
    /\ pc = "exec" /\ fi <= Len(functions)
    /\ LET func == functions[fi]
       IN IF ~Find(tools, func.name)
          THEN /\ pc' = "failed"
               /\ outcome' = "threw"
               /\ error' = "ToolNotFound"
               /\ UNCHANGED <<functionResults, fi, toolCalls, failure>>
          ELSE IF SafeParseFails(func.parameters)
          THEN /\ functionResults' = <<FR, ErrorFragment("Invalid parameters")>>
               /\ failure' = <<"ZodError">>
               /\ pc' = "feedback"
               /\ UNCHANGED <<fi, toolCalls, outcome, error>>
          ELSE /\ toolCalls' = Append(toolCalls, Call(round, func.name))
               /\ \E o \in ToolOutcomes :
                    IF o.kind = "resolve"
                    THEN /\ functionResults' =
                               Append(functionResults, ResultFragment(func.name, o.val))
                         /\ fi' = fi + 1
                         /\ pc' = IF fi + 1 > Len(functions) THEN "feedback" ELSE "exec"
                         /\ UNCHANGED failure
                    ELSE /\ functionResults' = <<FR, ErrorFragment(o.val)>>
                         /\ failure' = <<o.val>>
                         /\ pc' = "feedback"
                         /\ UNCHANGED fi
               /\ UNCHANGED <<outcome, error>>
    /\ UNCHANGED <<cVars, body, tools, requests, response, text, first, functions,
                   round, parsedLog, replies, fullMessages, filteredMessages, consumed,
                   done, content, outer, outerOpen, outerScript, finallyAborted,
                   yielded, events, calls, idx, results, sec, cont, contScript,
                   running, aborted, abortAt, attempts, iterations, usageErrors>>

\* a faulty variant: the result block takes the place of the last message
AppendRound_Replace(messages, isFirst, reply, block) ==
    SubSeq(messages, 1, Len(messages) - 1)
    \o (IF isFirst THEN << >> ELSE <<StringMsg("assistant", reply)>>)
    \o <<StringMsg("user", block)>>

\* lines 484-494: the transcript after a round
AppendRound(messages, isFirst, reply, block) ==
    messages
    \o (IF isFirst THEN << >> ELSE <<StringMsg("assistant", reply)>>)
    \o <<StringMsg("user", block)>>

\* lines 478-527: the result block is appended and fed back to the model
Feedback ==
    /\ pc = "feedback"
    /\ \E resp \in BufResponses :
         LET block == Append(functionResults, FREnd)
             msgs == AppendRound(body.messages, first,
                                 IF first THEN << >> ELSE response[1], block)
         IN /\ ReplyAllowed(resp)
            /\ functionResults' = block
            /\ body' = [body EXCEPT !.messages = msgs]
            /\ requests' = Append(requests,
                  Req("feedback", body.system[1], body.stop_sequences, msgs))
            /\ response' = resp
            /\ replies' = Append(replies, resp)
            /\ failure' = << >>
            /\ IF Len(resp) = 0 \/ Len(resp[1]) = 0
               THEN /\ Return(msgs)
                    /\ UNCHANGED <<text, first>>
               ELSE /\ text' = resp[1]
                    /\ first' = FALSE
                    /\ pc' = "while"
                    /\ UNCHANGED <<fullMessages, filteredMessages, outcome>>
    /\ UNCHANGED <<cVars, tools, toolCalls, error, functions, fi, round, parsedLog,
                   consumed, done, content, outer, outerOpen, outerScript,
                   finallyAborted, yielded, events, calls, idx, results, sec,
                   cont, contScript, running, aborted, abortAt, attempts,
                   iterations, usageErrors>>

NextB == RunWithTools \/ While \/ Exec \/ Feedback

NextS ==
    \/ Stream \/ Iterate \/ OuterChunk \/ OuterEnd \/ LoopHead \/ SecChunk
    \/ SecEnd \/ ToolSettle \/ SendFinal \/ ContChunk \/ ContEnd \/ Abort
    \/ ProviderFault \/ ConsumerStop

Next == NextS \/ NextB

Spec == Init /\ [][Next]_vars

\* one mode at a time
InitS == Init /\ mode = "streamed"
InitB == Init /\ mode = "buffered"
SpecS == InitS /\ [][NextS]_vars
SpecB == InitB /\ [][NextB]_vars

\* buffered mode when every provider request and every tool call completes,
\* for a caller with two tools, one message and no system text or stop
\* sequence
InitBOne ==
    /\ InitB
    /\ caller.tools = << <<"lookup", "compute">> >>
    /\ caller.messages = <<StringMsg("user", <<Txt>>)>>
    /\ caller.system = << >>
    /\ caller.stop_sequences = << >>
SpecBFair == InitBOne /\ [][NextB]_vars /\ WF_vars(NextB)

\* ================================================================ claims
IsPrefix(p, q) == Len(p) <= Len(q) /\ \A i \in 1..Len(p) : p[i] = q[i]

Last(q) == q[Len(q)]

ToolEvents(evs) ==
    SelectSeq(evs, LAMBDA e : e.type \in {"tool_invoke", "tool_result", "tool_error"})

RequestsOfKind(k) == {i \in 1..Len(requests) : requests[i].kind = k}

\* the tool events of evs pair up: invoke of record i, then the outcome of
\* record i
PairedUp(evs) ==
    LET te == ToolEvents(evs)
    IN \A i \in 1..Len(te) :
         LET r == (i + 1) \div 2
         IN /\ r <= Len(calls)
            /\ te[i].tool = calls[r].tool_name
            /\ IF i % 2 = 1 THEN te[i].type = "tool_invoke"
               ELSE te[i].type \in {"tool_result", "tool_error"}

\* C1: in a streamed round the consumer receives one tool_invoke per parsed
\* invocation record, each followed by exactly one tool_result or tool_error
\* of that tool before the next tool_invoke.
C1_InvokePerRecord ==
    mode = "streamed" /\ ~aborted =>
        /\ PairedUp(events)
        /\ (pc \in {"cont", "done"} /\ Len(calls) > 0
              => Len(ToolEvents(events)) = 2 * Len(calls))

\* C2: when every tool of a streamed round succeeded, the continuation
\* request carries the caller's messages, then the assistant reply with the
\* invocation block, then the user-role result block.
C2_ContinuationTranscript ==
    \A i \in RequestsOfKind("continuation") :
        (~aborted /\ Len(failure) = 0)
        => LET m == requests[i].messages
               n == Len(caller.messages)
           IN /\ Len(m) = n + 2
              /\ SubSeq(m, 1, n) = caller.messages
              /\ m[n + 1].role = "assistant"
              /\ GetTextFromMessage(m[n + 1]) = <<content[1]>>
              /\ m[n + 2] = StringMsg("user", functionResults)

CallsOfRound(r) ==
    LET cs == SelectSeq(toolCalls, LAMBDA c : c.round = r)
    IN [i \in 1..Len(cs) |-> cs[i].name]

ParsedNames(r) == [i \in 1..Len(parsedLog[r]) |-> parsedLog[r][i].name]

\* C3: in a buffered call the tools executed in round r are the invocations
\* parsed from the reply of round r, none of an earlier round.
C3_RoundRunsOwnInvocations ==
    mode = "buffered" =>
        \A r \in 1..Len(parsedLog) : IsPrefix(CallsOfRound(r), ParsedNames(r))

Names(cs) == [i \in 1..Len(cs) |-> cs[i].name]

\* no tool failed so far: no result block holds an error fragment
NoToolFailed ==
    /\ \A i \in 1..Len(functionResults) : functionResults[i].t # "err"
    /\ \A i \in 1..Len(body.messages) :
          \A k \in 1..Len(body.messages[i].str) : body.messages[i].str[k].t # "err"

\* C4: two tools, a first reply requesting both with valid parameters, a
\* second reply without invocation block: each tool is executed once, 2
\* provider requests are made, and the call returns without raising.
C4_TwoToolsTwoRequests ==
    ( /\ mode = "buffered"
      /\ tools = <<"lookup", "compute">>
      /\ Len(replies) >= 1
      /\ replies[1] = << <<Txt, FC, Inv("lookup", "valid"), Inv("compute", "valid")>> >>
      /\ (Len(replies) >= 2 => ~HasMarker(replies[2]))
      /\ NoToolFailed )
    => /\ outcome # "threw"
       /\ (outcome = "returned"
             => /\ Len(requests) = 2
                /\ Names(toolCalls) = <<"lookup", "compute">>)

Fragments(block) == SelectSeq(block, LAMBDA tk : tk.t \in {"res", "err"})

\* C5: in a streamed round in which invocation j is the first to fail, the
\* tool events are invoke(1), result(1), ..., invoke(j), error(j), nothing
\* after j is resolved or executed, and the result block holds the error
\* fragment only.
C5_FirstFailureEndsRound ==
    ( /\ mode = "streamed" /\ ~aborted
      /\ Len(failure) > 0
      /\ pc \in {"final", "cont", "done"} )
    => LET j == Cardinality(RequestsOfKind("secondary"))
           te == ToolEvents(events)
       IN /\ Len(te) = 2 * j
          /\ PairedUp(events)
          /\ \A i \in 1..Len(te) :
                i % 2 = 0 => te[i].type = IF i = 2 * j THEN "tool_error"
                                          ELSE "tool_result"
          /\ Len(toolCalls) <= j
          /\ Len(Fragments(functionResults)) = 1
          /\ Fragments(functionResults)[1].t = "err"

EventsOfType(ty) == {i \in 1..Len(events) : events[i].type = ty}

\* the events of the continuation stream forwarded so far
Delivered == Len(contScript) - Len(cont.q)

\* C6: every streamed round that parsed an invocation block and raised no
\* fatal error emits exactly one tool_results event, after the last
\* tool_result or tool_error and before the continuation events, carrying
\* the outcome map and the result-block message.
C6_OneToolResultsEvent ==
    ( /\ mode = "streamed" /\ ~aborted
      /\ pc \in {"cont", "done"} /\ Len(calls) > 0 )
    => /\ Cardinality(EventsOfType("tool_results")) = 1
       /\ \A k \in EventsOfType("tool_results") :
            /\ \A i \in EventsOfType("tool_result") \cup EventsOfType("tool_error") : i < k
            /\ k <= Len(events) - Delivered
            /\ events[k].results = results
            /\ events[k].block = <<StringMsg("user", functionResults)>>

IsErrorBlockMsg(m) ==
    /\ m.role = "user" /\ m.isString
    /\ Len(m.str) = 3
    /\ m.str[1] = FR /\ m.str[2].t = "err" /\ m.str[3] = FREnd

\* C7: in both modes a tool failure does not abort the call: the next
\* provider request (feedback or continuation) ends with a user message
\* whose result block holds the error fragment only, and in streamed mode a
\* tool_error event is emitted.
C7_ErrorFedBack ==
    /\ [](Len(failure) > 0 => outcome # "threw")
    /\ [][ (Len(failure) > 0 /\ ~aborted /\ Len(requests') > Len(requests))
           => LET r == requests'[Len(requests')]
              IN /\ r.kind \in {"feedback", "continuation"}
                 /\ Len(r.messages) > 0
                 /\ IsErrorBlockMsg(Last(r.messages))
                 /\ (mode = "streamed" => EventsOfType("tool_error") # {}) ]_vars

ContOpened == RequestsOfKind("continuation") # {}

ChunkEvs(script, n) == [i \in 1..n |-> ChunkEv(script[i])]

RECURSIVE Forwarded(_)
Forwarded(ys) ==
    IF Len(ys) = 0 THEN << >>
    ELSE IteratorForward(Head(ys)) \o Forwarded(Tail(ys))

\* C8: a streamed call that processed an invocation block opens exactly one
\* continuation stream, after the last tool event, with a system prompt that
\* forbids tool calls; its events are forwarded unchanged as the tail of the
\* sequence; nothing is executed or requested after it was opened, also when
\* the continuation text holds an invocation block.
C8_OneContinuation ==
    /\ [](mode = "streamed" =>
            /\ Cardinality(RequestsOfKind("continuation")) <= 1
            /\ (pc \in {"cont", "done"} /\ Len(calls) > 0 => ContOpened)
            /\ \A i \in RequestsOfKind("continuation") :
                  /\ i = Len(requests)
                  /\ requests[i].system[1] = "no_more_tools"
            /\ (ContOpened =>
                  \E m \in 0..Len(outerScript) :
                     events = ChunkEvs(outerScript, m) \o Forwarded(yielded)
                              \o ChunkEvs(contScript, Delivered)))
    /\ [][ContOpened => toolCalls' = toolCalls /\ requests' = requests]_vars

\* C8 witness: the call is over, tools ran, and the continuation text held
\* an invocation block
C8_Witness ==
    /\ pc = "done" /\ Len(toolCalls) > 0
    /\ contScript = ChunkScript(<<Txt, FC, Inv("lookup", "ctx")>>)
    /\ Delivered = Len(contScript)

\* C9: a stream is iterated once; a later attempt, during or after the first
\* iteration, fails with a usage error and requests, executes and emits
\* nothing.
C9_SinglePass ==
    /\ [](iterations <= 1)
    /\ [][ attempts' > attempts =>
             IF consumed
             THEN /\ usageErrors' = usageErrors + 1
                  /\ UNCHANGED <<pc, requests, toolCalls, events, yielded, body,
                                 sec, cont, outer, outerOpen, content>>
             ELSE /\ pc = "notStarted" /\ pc' = "outer"
                  /\ consumed' /\ usageErrors' = usageErrors ]_vars

\* C9 witness: a second attempt was refused while the first iteration was
\* consuming the continuation stream
C9_Witness == usageErrors = 1 /\ iterations = 1 /\ pc = "cont" /\ attempts = 2

\* C10: after the consumer aborts the stream no provider stream is open and
\* no provider request is started.
C10_AbortCancelsOpenStream ==
    aborted => /\ ~outerOpen /\ ~sec.open /\ ~cont.open
               /\ Len(requests) = abortAt

\* C11: once the consumer has aborted a streamed call, in whichever phase,
\* no error is raised to the consumer, no tool function is called and no
\* event is emitted.
C11_AbortEndsQuietly ==
    /\ [](aborted => outcome # "threw")
    /\ [][aborted => toolCalls' = toolCalls /\ events' = events]_vars

\* the positions at which the iteration of a streamed call has ended
Exits == {"done", "failed", "cancelled", "stopped"}

\* C12: a fault other than an abort is raised to the consumer and the outer
\* provider stream is aborted in the same step; a call that completes
\* normally does not abort it; every exit (success, failure, cancellation,
\* consumer stopping early) takes the same exit step, which aborts the
\* stream exactly when the iteration did not run to its end.
C12_SingleExit ==
    /\ [](pc \in Exits => (finallyAborted <=> ~done))
    /\ [](pc = "failed" <=> outcome = "threw")
    /\ [](outcome = "threw" => finallyAborted /\ error # "-" /\ error # "AbortError")
    /\ [](outcome = "completed" => ~finallyAborted /\ error = "-")
    /\ [][ finallyAborted' # finallyAborted
              => pc \notin Exits /\ pc' \in Exits \ {"done"} ]_vars
    /\ [][ error' # error => outcome' = "threw" /\ finallyAborted' ]_vars

\* C12 witness: the continuation stream failed after a tool had run, and
\* the fault was raised with the outer stream aborted
C12_Witness ==
    /\ pc = "failed" /\ error = "APIError" /\ finallyAborted
    /\ ContOpened /\ Len(toolCalls) > 0

\* every reply of the model so far has a first text block that is not empty
RepliesHaveText ==
    \A i \in 1..Len(replies) : Len(replies[i]) > 0 /\ Len(replies[i][1]) > 0

\* C13: a buffered call that returns after n tool rounds, every reply having
\* non-empty text, made n + 1 provider requests and returns fullMessages of
\* length input + 2n + 1; with no invocation block in the first reply that
\* is one request and input + 1 messages.
C13_RequestsAndLength ==
    (mode = "buffered" /\ outcome = "returned" /\ RepliesHaveText)
    => LET n == Cardinality(RequestsOfKind("feedback"))
       IN /\ n = round
          /\ Len(requests) = n + 1
          /\ Len(replies) = n + 1
          /\ Len(fullMessages) = Len(caller.messages) + 2 * n + 1
          /\ (~HasMarker(replies[1]) => n = 0)

\* C13 witness: a call returned after two tool rounds
C13_Witness ==
    /\ mode = "buffered" /\ outcome = "returned" /\ RepliesHaveText
    /\ round = 2 /\ Len(requests) = 3

\* the messages of the running transcript that carry a result block
ResultBlocks ==
    {i \in (Len(caller.messages) + 1)..Len(body.messages) :
        body.messages[i].isString /\ Includes(body.messages[i].str, FR)}

\* C14: once a reply was parsed whose invocation names a tool that is not in
\* the tool list, the call raises the lookup error: it does not return, no
\* result block is appended or emitted for that round, and no provider
\* request follows.
C14_AbsentToolIsFatal ==
    /\ mode = "buffered" =>
          \A r \in 1..Len(parsedLog) :
             (\E i \in 1..Len(parsedLog[r]) : ~Find(tools, parsedLog[r][i].name))
             => /\ pc \in {"exec", "failed"}
                /\ (pc = "failed" => error = "ToolNotFound")
                /\ outcome # "returned"
                /\ Len(requests) <= r
                /\ Cardinality(ResultBlocks) <= r - 1
    /\ mode = "streamed" =>
          ((\E i \in 1..Len(calls) : ~Find(tools, calls[i].tool_name))
           => /\ pc \in {"loop", "failed", "stopped"}
              /\ (pc = "failed" => error = "ToolNotFound")
              /\ EventsOfType("tool_results") = {}
              /\ Len(requests) = 1)

\* C15: with an empty tool list the first provider request, in either mode,
\* carries the caller's system text without framing and the caller's stop
\* sequences (an absent field and an empty one are taken as the same).
C15_EmptyToolsPassThrough ==
    (Len(requests) >= 1 /\ tools = << >>)
    => /\ requests[1].kind = "initial"
       /\ requests[1].system = OrElse(caller.system, << >>)
       /\ OrElse(requests[1].stop_sequences, << >>)
            = OrElse(caller.stop_sequences, << >>)

\* C16: with a non-empty tool list the initial request and every feedback
\* request carry the caller's stop sequences in their order followed by the
\* closing marker of the invocation block, once.
C16_StopSequencesExtended ==
    Len(tools) > 0 =>
       \A i \in 1..Len(requests) :
          requests[i].kind \in {"initial", "feedback"}
          => LET sent == requests[i].stop_sequences
                 own == OrElse(caller.stop_sequences, << >>)
             IN /\ Len(sent) = 1
                /\ Len(sent[1]) = Len(own) + 1
                /\ SubSeq(sent[1], 1, Len(own)) = own
                /\ Last(sent[1]) = "</function_calls>"

\* C16 witness: a buffered call with a stop sequence of its own has sent two
\* feedback requests
C16_Witness ==
    /\ mode = "buffered" /\ Len(tools) > 0
    /\ caller.stop_sequences = << <<"STOP">> >>
    /\ Cardinality(RequestsOfKind("feedback")) = 2

\* C17: the transcript of a buffered call only grows by appending: each
\* step leaves the previous transcript as a prefix of the new one, and the
\* caller's messages are a prefix of the transcript and of fullMessages,
\* which is the transcript at the return.
C17_TranscriptAppendOnly ==
    /\ [](mode = "buffered" =>
            /\ IsPrefix(caller.messages, body.messages)
            /\ (outcome = "returned" =>
                  /\ fullMessages = body.messages
                  /\ IsPrefix(caller.messages, fullMessages)))
    /\ [][mode = "buffered" => IsPrefix(body.messages, body.messages')]_vars

\* C17 witness: a call returned after two rounds, the second of which added
\* the assistant text and the result block
C17_Witness ==
    /\ mode = "buffered" /\ outcome = "returned" /\ round = 2
    /\ Len(fullMessages) >= Len(caller.messages) + 4
    /\ caller.messages = QuotingTranscript

TextHas(m, tok) ==
    LET t == GetTextFromMessage(m) IN Len(t) > 0 /\ Includes(t[1], tok)

\* message i of fullMessages is a protocol-control turn the engine produced
IsControlTurn(i) ==
    /\ i > Len(caller.messages)
    /\ \/ fullMessages[i].role = "assistant" /\ TextHas(fullMessages[i], FC)
       \/ fullMessages[i].role = "user" /\ TextHas(fullMessages[i], FR)

RECURSIVE Pick(_, _, _)
Pick(q, S, i) ==
    IF i > Len(q) THEN << >>
    ELSE (IF i \in S THEN <<q[i]>> ELSE << >>) \o Pick(q, S, i + 1)

\* C18: at every return of a buffered call filteredMessages is fullMessages
\* without the control turns the engine produced, in the same order: the
\* caller's messages are all retained, and no retained message holds an
\* invocation or result marker.
C18_FilteredView ==
    (mode = "buffered" /\ outcome = "returned")
    => /\ filteredMessages
            = Pick(fullMessages,
                   {i \in 1..Len(fullMessages) : ~IsControlTurn(i)}, 1)
       /\ IsPrefix(caller.messages, filteredMessages)
       /\ \A i \in 1..Len(filteredMessages) :
             ~TextHas(filteredMessages[i], FC) /\ ~TextHas(filteredMessages[i], FR)

\* the text a provider stream delivers holds the invocation start marker
ScriptHasFC(sc) ==
    \E i \in 1..Len(sc) :
       sc[i].type = "content_block_delta" /\ Includes(sc[i].text, FC)

\* C19: a reply without invocation start marker, also a streamed reply
\* without any content block, yields no invocation record, runs no tool,
\* causes no further provider request, and the call ends normally.
C19_NoMarkerNoTools ==
    /\ ( /\ mode = "streamed" /\ ~aborted /\ error # "APIError"
          /\ pc \in {"loop", "secondary", "tool", "final", "cont", "done", "failed"}
          /\ ~ScriptHasFC(outerScript) )
       => /\ pc = "done" /\ outcome = "completed"
          /\ Len(calls) = 0 /\ Len(toolCalls) = 0 /\ Len(requests) = 1
    /\ (mode = "buffered" /\ Len(replies) > 0 /\ ~HasMarker(Last(replies)))
       => /\ pc \in {"while", "returned"}
          /\ outcome # "threw"
          /\ Len(requests) = Len(replies)

\* the invoke elements of the invocation block of a text, in block order
InvokesOf(txt) == SelectSeq(SplitSecond(txt, FC), LAMBDA tk : tk.t = "inv")

\* C20: parsing an invocation block with k >= 1 invoke elements yields k
\* records in block order, the i-th with the tool name and payload of the
\* i-th element, for k = 1 and for k >= 2 alike.
C20_RecordPerInvoke ==
    /\ (mode = "streamed" /\ Len(calls) > 0)
       => LET es == InvokesOf(content[1])
          IN calls = [i \in 1..Len(es) |-> Rec(es[i].name, es[i].arg)]
    /\ mode = "buffered"
       => \A r \in 1..Len(parsedLog) :
             LET es == InvokesOf(replies[r][1])
             IN parsedLog[r] = [i \in 1..Len(es) |-> Func(es[i].name, es[i].arg)]

\* C21: in streamed mode a tool function is called once per invocation whose
\* parameters passed validation, and when it settles exactly one event is
\* delivered for it: tool_result with the returned value when it resolved,
\* tool_error with the cause when it rejected, whatever the value or cause.
C21_OneOutcomePerCall ==
    /\ [][ (mode = "streamed" /\ Len(toolCalls') > Len(toolCalls))
           => /\ pc = "secondary" /\ pc' = "tool"
              /\ Len(toolCalls') = Len(toolCalls) + 1 ]_vars
    /\ [][ (mode = "streamed" /\ pc = "tool" /\ pc' \in {"loop", "final"})
           => LET new == SubSeq(events', Len(events) + 1, Len(events'))
              IN /\ Len(new) = 1
                 /\ new[1].tool = running
                 /\ IF Len(failure') > 0
                    THEN new[1].type = "tool_error" /\ new[1].val = failure'[1]
                    ELSE /\ new[1].type = "tool_result"
                         /\ [name |-> running, val |-> new[1].val] \in results' ]_vars

\* C22: in streamed mode each invocation gets one secondary request and
\* never a second; when the secondary text is not JSON or fails the schema,
\* a tool_error for that tool is delivered and its function is not called,
\* in that step or later.
C22_OneResolutionNoRetry ==
    /\ [](mode = "streamed" =>
            /\ Cardinality(RequestsOfKind("secondary")) <= Len(calls)
            /\ (Len(failure) > 0 /\ sec.finalText # "json_ok"
                  => Len(toolCalls) = 0))
    /\ [][ (mode = "streamed" /\ pc = "secondary"
            /\ pc' \in {"tool", "loop", "final"})
           => /\ requests' = requests
              /\ IF sec'.finalText = "json_ok"
                 THEN /\ pc' = "tool"
                      /\ toolCalls' = Append(toolCalls, Call(1, calls[idx].tool_name))
                      /\ events' = events
                 ELSE /\ toolCalls' = toolCalls
                      /\ Len(events') = Len(events) + 1
                      /\ Last(events').type = "tool_error"
                      /\ Last(events').tool = calls[idx].tool_name
                      /\ Last(events').val \in {"SyntaxError", "ZodError"} ]_vars

\* C22 witness: the secondary model wrapped its JSON in <parameters>, the
\* round ended with a tool_error and without a tool call
C22_Witness ==
    /\ mode = "streamed" /\ pc = "done" /\ sec.finalText = "wrapped_cut"
    /\ failure = <<"SyntaxError">> /\ Len(toolCalls) = 0
    /\ EventsOfType("tool_error") # {}
    /\ Cardinality(RequestsOfKind("secondary")) = 1

InvalidParametersBlock == <<FR, ErrorFragment("Invalid parameters")>>

\* C23: in buffered mode, when the parameters of the invocation at hand fail
\* validation, its function is not called, nothing more of the round is
\* executed, the result block is reset to the error fragment alone, and the
\* next step is the feedback request carrying that block.
C23_ValidationFailureResetsBlock ==
    /\ [][ ( /\ mode = "buffered" /\ pc = "exec" /\ fi <= Len(functions)
              /\ Find(tools, functions[fi].name)
              /\ functions[fi].parameters # "valid" )
           => /\ toolCalls' = toolCalls
              /\ pc' = "feedback"
              /\ functionResults' = InvalidParametersBlock
              /\ failure' = <<"ZodError">> ]_vars
    /\ [][ (mode = "buffered" /\ pc = "feedback" /\ failure = <<"ZodError">>)
           => /\ toolCalls' = toolCalls
              /\ Len(requests') = Len(requests) + 1
              /\ Last(requests').kind = "feedback"
              /\ Last(Last(requests').messages)
                    = StringMsg("user", Append(InvalidParametersBlock, FREnd))
              /\ pc' \in {"while", "returned"} ]_vars

\* C23 witness: in the second round a tool succeeded before the validation
\* failure, and the feedback request carried the error fragment alone
C23_Witness ==
    /\ mode = "buffered" /\ Len(requests) = 3 /\ round = 2
    /\ Len(CallsOfRound(2)) = 1
    /\ parsedLog[2][1].parameters = "invalid"
    /\ Last(requests[3].messages)
          = StringMsg("user", Append(InvalidParametersBlock, FREnd))

\* the activities of a streamed call that are in progress
Activities ==
    (IF outerOpen THEN {"outer"} ELSE {})
    \cup (IF sec.open THEN {"secondary"} ELSE {})
    \cup (IF cont.open THEN {"continuation"} ELSE {})
    \cup (IF running # "-" THEN {"tool"} ELSE {})

\* C24: at most one activity is in progress at any time; a tool function
\* starts only when its secondary stream has been drained and closed; a
\* secondary or continuation request is sent only when no tool is running
\* and the outer stream has ended with nothing left to read.
C24_OneActivityAtATime ==
    /\ [](mode = "streamed" => Cardinality(Activities) <= 1)
    /\ [][ (mode = "streamed" /\ running' # running /\ running' # "-")
           => /\ running = "-"
              /\ sec.open /\ sec.left = 0 /\ ~sec'.open
              /\ Last(requests).kind = "secondary" ]_vars
    /\ [][ (mode = "streamed" /\ Len(requests) >= 1
            /\ Len(requests') > Len(requests))
           => /\ running = "-"
              /\ ~outerOpen /\ Len(outer) = 0
              /\ ~sec.open /\ ~cont.open ]_vars

\* C24 witness: a tool function is running, after the outer stream and its
\* secondary stream, which delivered a chunk, were closed
C24_Witness ==
    /\ mode = "streamed" /\ pc = "tool" /\ running = "lookup"
    /\ Activities = {"tool"}
    /\ Len(requests) = 2 /\ ~aborted

IsToolEvent(e) ==
    e.type \in {"tool_invoke", "tool_result", "tool_error", "tool_results"}

\* the events read from the outer stream before a consumer abort
OuterRead == Len(outerScript) - Len(outer)

\* C25: while the outer stream is consumed the consumer receives the
\* provider's events unchanged, in order, none dropped or added; the events
\* of a call are outer events, then tool events, then continuation events.
C25_OuterEventsVerbatim ==
    /\ [](mode = "streamed" =>
            /\ \E m \in 0..Len(outerScript) :
                  \E k \in 0..(Len(events) - m - Delivered) :
                     /\ events = ChunkEvs(outerScript, m)
                                 \o SubSeq(events, m + 1, m + k)
                                 \o ChunkEvs(contScript, Delivered)
                     /\ \A i \in (m + 1)..(m + k) : IsToolEvent(events[i])
            /\ (~aborted /\ pc = "outer"
                  => events = ChunkEvs(outerScript, OuterRead))
            /\ (~aborted /\ pc \in {"loop", "secondary", "tool", "final", "cont", "done"}
                  => IsPrefix(ChunkEvs(outerScript, Len(outerScript)), events)))
    /\ [][ (mode = "streamed" /\ pc = "outer" /\ pc' = "outer"
            /\ Len(outer') < Len(outer) /\ ~aborted')
           => events' = Append(events, ChunkEv(Head(outer))) ]_vars

\* C25 witness: all seven events of a reply with an invocation block were
\* delivered, then a tool event, then the first continuation event
C25_Witness ==
    /\ mode = "streamed" /\ pc = "cont" /\ ~aborted /\ Delivered = 1
    /\ Len(outerScript) = 7
    /\ Len(events) = 7 + Len(Forwarded(yielded)) + 1
    /\ Len(Forwarded(yielded)) >= 1

\* every reply so far holds one invoke element that names a listed tool and
\* carries valid parameters
AllRepliesValid ==
    /\ Len(replies) > 0
    /\ \A i \in 1..Len(replies) :
          \E n \in ToolNames :
             /\ Find(tools, n)
             /\ replies[i] = << <<Txt, FC, Inv(n, "valid")>> >>

LastReplyPlain == Len(replies) > 0 /\ ~HasMarker(Last(replies))

C27_LastIsFinalReply ==
    (mode = "buffered" /\ outcome = "returned")
    => /\ Len(fullMessages) > 0
       /\ Last(fullMessages).role = "assistant"
       /\ \/ Last(fullMessages) = BlocksMsg("assistant", response)
          \/ /\ Len(response) > 0
             /\ Last(fullMessages) = StringMsg("assistant", response[1])

\* the messages of fullMessages after the caller's input
EngineTail ==
    SubSeq(fullMessages, Len(caller.messages) + 1, Len(fullMessages))

\* the assistant message the k-th reply is recorded as: the first reply as
\* content blocks, a later one as the text of its first block
ReplyMsg(k) ==
    IF k = 1 THEN BlocksMsg("assistant", replies[1])
    ELSE StringMsg("assistant", replies[k][1])

\* C28: in the fullMessages of a buffered call the messages after the
\* caller's input alternate assistant, user, assistant, ..., beginning with
\* an assistant message; each model reply appears exactly once, in order,
\* and each result block directly follows the reply that asked for it.
C28_AlternatingTranscript ==
    (mode = "buffered" /\ outcome = "returned")
    => /\ Len(EngineTail) = 2 * Len(replies) - 1
       /\ \A i \in 1..Len(EngineTail) :
             EngineTail[i].role = IF i % 2 = 1 THEN "assistant" ELSE "user"
       /\ \A k \in 1..Len(replies) :
             /\ 2 * k - 1 <= Len(EngineTail)
             /\ Len(replies[k]) > 0 \/ k = 1
             /\ EngineTail[2 * k - 1] = ReplyMsg(k)
       /\ \A k \in 1..(Len(replies) - 1) :
             /\ 2 * k <= Len(EngineTail)
             /\ EngineTail[2 * k].isString
             /\ Len(EngineTail[2 * k].str) > 0
             /\ EngineTail[2 * k].str[1] = FR
             /\ Includes(replies[k][1], FC)

\* C29: a buffered or streamed call leaves the caller's request object as
\* it was: its messages, system, stop_sequences and tools fields hold the
\* values they had before the call.
C29_RequestObjectUntouched ==
    /\ body.messages = caller.messages
    /\ body.system = caller.system
    /\ body.stop_sequences = caller.stop_sequences
    /\ body.tools = caller.tools

====
